---- MODULE Spec2Model ----
(***************************************************************************)
(* Model of the Lambda-optimised Common Corpus facade                      *)
(* (libs/common-corpus/lambda-index.js): the directory scan done by the    *)
(* constructor, the insertion-ordered text cache, and the public           *)
(* operations texts[i].text(), texts[i].sentences(), filter(), readFile()  *)
(* and clearCache(); the example API handler of the Lambda layer; and the  *)
(* two entry points of PoeticalBot (apps/poeticalbot/src): the CLI and the *)
(* Lambda handler.                                                         *)
(*                                                                         *)
(* A JavaScript string is modelled as a sequence of atoms.  An atom is a   *)
(* run of characters that no string operation of the code ever splits: a   *)
(* path separator, a file stem, an extension, the '###' marker, the word   *)
(* 'sentences'.  File contents are sequences of byte values.               *)
(***************************************************************************)
EXTENDS Integers, Sequences, FiniteSets, TLC

VARIABLES
    phase,         \* "scanning" during construction, then "ready" or "threw"
    env,           \* host environment read by the constructor
    options,       \* the options object passed to the constructor
    config,        \* config.maxCacheSize / config.isLambda
    root,          \* root = getCorpusPath()
    texts,         \* the texts array (this.texts)
    textCache,     \* the Map textCache, as its entries in insertion order
    lost,          \* files that currently cannot be read
    requireCache,  \* modules already loaded by require()
    last,          \* the most recent call on the instance and its outcome
    failedDoc,     \* history: index of the document whose text()/sentences() failed most
                   \* recently, 0 if none yet, NotRecorded where no history is kept
    bot            \* PoeticalBot: its environment and the most recent run of the CLI or
                   \* invocation of the Lambda handler

vars == <<phase, env, options, bot, config, root, texts, textCache, lost, requireCache, last, failedDoc>>

----------------------------------------------------------------------------
(* Bounds of the model                                                     *)

\* largest cache capacity passed explicitly in options.maxCacheSize
MaxCap == 2
\* how many files may be unreadable at the same time
MaxLost == 1

----------------------------------------------------------------------------
(* String helpers over sequences of atoms                                  *)

Last(s) == s[Len(s)]

\* s.indexOf(sub), 1-based; 0 when sub does not occur
IndexOf(s, sub) ==
    LET hits == {i \in 1..(Len(s) - Len(sub) + 1) : SubSeq(s, i, i + Len(sub) - 1) = sub}
    IN  IF hits = {} THEN 0 ELSE CHOOSE i \in hits : \A j \in hits : i <= j

\* s.replace(sub, '') with a string pattern: only the first occurrence
ReplaceFirst(s, sub) ==
    LET i == IndexOf(s, sub)
    IN  IF i = 0 THEN s ELSE SubSeq(s, 1, i - 1) \o SubSeq(s, i + Len(sub), Len(s))

\* path.basename(p): what follows the last separator
basename(p) ==
    LET seps == {i \in 1..Len(p) : p[i] = "/"}
        k == IF seps = {} THEN 0 ELSE CHOOSE i \in seps : \A j \in seps : j <= i
    IN  SubSeq(p, k + 1, Len(p))

----------------------------------------------------------------------------
(* The file system the instance runs on                                    *)

LambdaLayerPath == <<"/", "opt", "/", "nodejs", "/", "node_modules", "/", "common-corpus", "/", "corpus-extracted">>
LocalCorpusPath == <<"/", "__dirname", "/", "corpus">>
CustomCorpusPath == <<"/", "data">>

\* readdirSync of each directory of the corpus tree, relative to the root
Tree ==
    (<<>> :> << <<"###">>, <<"a", ".txt">>, <<"b", ".txt">>, <<"d">>, <<"sentences">> >>)
 @@ (<<"###", "/">> :> << <<"n">>, <<"x", ".txt">> >>)
 @@ (<<"###", "/", "n", "/">> :> << <<"y", ".txt">> >>)
 @@ (<<"d", "/">> :> << <<"a", ".txt">>, <<"c", ".zip">> >>)
 @@ (<<"sentences", "/">> :> << <<"s", ".js">> >>)

DirsRel == DOMAIN Tree

\* bytes of each regular file of the tree
FileBytes ==
    (<<"sentences", "/", "s", ".js">> :> <<91, 93>>)
 @@ (<<"a", ".txt">> :> <<72, 105, 46>>)
 @@ (<<"b", ".txt">> :> <<97, 45, 10, 98, 46>>)
 @@ (<<"d", "/", "a", ".txt">> :> <<79, 46, 32, 84, 33>>)
 @@ (<<"d", "/", "c", ".zip">> :> <<80, 75>>)
 @@ (<<"###", "/", "x", ".txt">> :> <<120>>)
 @@ (<<"###", "/", "n", "/", "y", ".txt">> :> <<121>>)

\* module.exports of each pre-segmented sentence file
SentenceModules ==
    (<<"sentences", "/", "s", ".js">> :> << <<65, 46>>, <<66, 46>> >>)

FilesRel == DOMAIN FileBytes

\* path relative to the root directory r, or <<"?">> for a path outside it
RelTo(r, p) ==
    LET rs == IF Last(r) = "/" THEN r ELSE r \o <<"/">>
    IN  IF Len(p) >= Len(rs) /\ SubSeq(p, 1, Len(rs)) = rs
        THEN SubSeq(p, Len(rs) + 1, Len(p))
        ELSE <<"?">>

\* fs.readdirSync(dir): throws unless dir is a readable directory of the tree
readdirSync(e, r, dir) ==
    LET rel == RelTo(r, dir)
    IN  IF e.rootExists /\ rel \in DirsRel /\ rel \notin e.lockedDirs
        THEN [ok |-> TRUE, files |-> Tree[rel]]
        ELSE [ok |-> FALSE, files |-> <<>>]

\* fs.statSync(p): throws for the entries the host cannot stat
statThrows(e, r, p) == RelTo(r, p) \in e.badStat

isDirectory(r, p) == (RelTo(r, p) \o <<"/">>) \in DirsRel

\* fs.readFileSync(p): throws unless p is a regular file that can be read now
readFileSync(e, r, lostNow, p) ==
    LET rel == RelTo(r, p)
    IN  IF e.rootExists /\ rel \in FilesRel /\ p \notin lostNow
        THEN [ok |-> TRUE, bytes |-> FileBytes[rel]]
        ELSE [ok |-> FALSE, bytes |-> <<>>]

----------------------------------------------------------------------------
(* Construction: configuration, root resolution, directory scan            *)

DefaultMaxCacheSize == 10

\* const config = { maxCacheSize: options.maxCacheSize || 10, isLambda: ..., ...options }
MakeConfig(e, o) ==
    LET dflt == IF o.hasMax /\ o.maxCacheSize # 0 THEN o.maxCacheSize ELSE DefaultMaxCacheSize
    IN  [maxCacheSize |-> IF o.hasMax THEN o.maxCacheSize ELSE dflt,
         isLambda     |-> e.lambda]

getCorpusPath(cfg, e) ==
    IF cfg.isLambda THEN LambdaLayerPath
    ELSE IF e.corpusPath # <<>> THEN e.corpusPath
    ELSE LocalCorpusPath

Undefined == [defined |-> FALSE, list |-> <<>>]

RECURSIVE walkSync(_, _, _, _, _)
RECURSIVE walkEntries(_, _, _, _, _, _, _)

\* variant: archives are listed in the Lambda environment too
walkEntriesKeepsArchives(e, cfg, r, dir, files, i, filelist) ==
    IF i > Len(files) THEN filelist
    ELSE LET file == files[i]
             fullPath == dir \o file
             next ==
                 IF statThrows(e, r, fullPath) THEN filelist
                 ELSE IF isDirectory(r, fullPath)
                      THEN walkSync(e, cfg, r, fullPath \o <<"/">>, filelist)
                 ELSE [filelist EXCEPT !.list = Append(@, fullPath)]
         IN  walkEntries(e, cfg, r, dir, files, i + 1, next)

\* the body of files.forEach(...), entry i onwards
walkEntries(e, cfg, r, dir, files, i, filelist) ==
    IF i > Len(files) THEN filelist
    ELSE LET file == files[i]
             fullPath == dir \o file
             next ==
                 IF statThrows(e, r, fullPath) THEN filelist
                 ELSE IF isDirectory(r, fullPath)
                      THEN walkSync(e, cfg, r, fullPath \o <<"/">>, filelist)
                 ELSE IF cfg.isLambda /\ Last(file) \in {".zip", ".7z"} THEN filelist
                 ELSE [filelist EXCEPT !.list = Append(@, fullPath)]
         IN  walkEntries(e, cfg, r, dir, files, i + 1, next)

\* variant: a directory that cannot be read ends the scan with nothing
walkSyncGivesUp(e, cfg, r, dir0, filelist) ==
    LET dir == IF Last(dir0) # "/" THEN dir0 \o <<"/">> ELSE dir0
        rd  == readdirSync(e, r, dir)
    IN  IF ~rd.ok THEN Undefined
        ELSE LET fl == IF filelist.defined THEN filelist ELSE [defined |-> TRUE, list |-> <<>>]
             IN  IF IndexOf(dir, <<"###">>) = 0
                 THEN walkEntries(e, cfg, r, dir, rd.files, 1, fl)
                 ELSE fl

\* variant: directories marked '###' are walked like any other
walkSyncNoExclusion(e, cfg, r, dir0, filelist) ==
    LET dir == IF Last(dir0) # "/" THEN dir0 \o <<"/">> ELSE dir0
        rd  == readdirSync(e, r, dir)
    IN  IF ~rd.ok THEN filelist
        ELSE LET fl == IF filelist.defined THEN filelist ELSE [defined |-> TRUE, list |-> <<>>]
             IN  walkEntries(e, cfg, r, dir, rd.files, 1, fl)

\* walkSync(dir, filelist); the result is filelist, which may still be undefined
walkSync(e, cfg, r, dir0, filelist) ==
    LET dir == IF Last(dir0) # "/" THEN dir0 \o <<"/">> ELSE dir0
        rd  == readdirSync(e, r, dir)
    IN  IF ~rd.ok THEN filelist
        ELSE LET fl == IF filelist.defined THEN filelist ELSE [defined |-> TRUE, list |-> <<>>]
             IN  IF IndexOf(dir, <<"###">>) = 0
                 THEN walkEntries(e, cfg, r, dir, rd.files, 1, fl)
                 ELSE fl

KnownExtensions == {".txt", ".js", ".zip", ".7z"}

\* name.replace(/\.(txt|js|zip|7z)$/g, '').replace(root, '').replace(/^[\/\\]/, '')
cleanName(r, name) ==
    LET s1 == IF name # <<>> /\ Last(name) \in KnownExtensions
              THEN SubSeq(name, 1, Len(name) - 1) ELSE name
        s2 == ReplaceFirst(s1, r)
    IN  IF s2 # <<>> /\ s2[1] \in {"/", "\\"} THEN Tail(s2) ELSE s2

\* one entry of texts; kind tells which pair of closures the entry carries
Descriptor(r, filename) ==
    [name     |-> cleanName(r, filename),
     filename |-> filename,
     kind     |-> IF IndexOf(filename, <<"sentences">>) > 0 THEN "sentences" ELSE "raw"]

----------------------------------------------------------------------------
(* Text loading                                                            *)

LF == 10
SPACE == 32
HYPHEN == 45
BOM == 65279

\* iconv.decode(buffer, 'ISO8859-1'): byte b is code point U+00b
decodeLatin1(bytes) == [i \in DOMAIN bytes |-> bytes[i] % 256]

RECURSIVE debreak(_)
\* lib/debreak: a line break after a hyphen joins the two lines without the
\* hyphen, a single line break becomes a space, blank lines stay, a final
\* line break is dropped
debreak(s) ==
    IF s = <<>> THEN <<>>
    ELSE IF s[1] = LF
         THEN IF Len(s) = 1 THEN <<>>
              ELSE IF s[2] = LF THEN <<LF, LF>> \o debreak(SubSeq(s, 3, Len(s)))
              ELSE <<SPACE>> \o debreak(Tail(s))
    ELSE IF s[1] = HYPHEN /\ Len(s) >= 3 /\ s[2] = LF /\ s[3] # LF
         THEN debreak(SubSeq(s, 3, Len(s)))
    ELSE <<s[1]>> \o debreak(Tail(s))

\* variant: a failed read is logged and an empty text is returned
gettextSwallows(e, r, lostNow, filename) ==
    LET rd == readFileSync(e, r, lostNow, filename)
    IN  IF ~rd.ok THEN [threw |-> FALSE, text |-> <<>>]
        ELSE LET book == decodeLatin1(rd.bytes)
                 body == IF book # <<>> /\ book[1] = BOM THEN Tail(book) ELSE book
             IN  [threw |-> FALSE, text |-> debreak(body)]

\* gettext(filename): read, decode, strip a leading BOM, debreak; any
\* failure is rethrown as 'Failed to read text file'
gettext(e, r, lostNow, filename) ==
    LET rd == readFileSync(e, r, lostNow, filename)
    IN  IF ~rd.ok THEN [threw |-> TRUE, text |-> <<>>]
        ELSE LET book == decodeLatin1(rd.bytes)
                 body == IF book # <<>> /\ book[1] = BOM THEN Tail(book) ELSE book
             IN  [threw |-> FALSE, text |-> debreak(body)]

Terminators == {46, 33, 63}

RECURSIVE trim(_)
trim(s) ==
    IF s = <<>> THEN s
    ELSE IF s[1] \in {SPACE, LF} THEN trim(Tail(s))
    ELSE IF Last(s) \in {SPACE, LF} THEN trim(SubSeq(s, 1, Len(s) - 1))
    ELSE s

RECURSIVE splitFrom(_, _)
splitFrom(s, acc) ==
    IF s = <<>> THEN (IF trim(acc) = <<>> THEN <<>> ELSE <<trim(acc)>>)
    ELSE IF s[1] \in Terminators
         THEN (IF trim(Append(acc, s[1])) = <<>> THEN <<>> ELSE <<trim(Append(acc, s[1]))>>)
              \o splitFrom(Tail(s), <<>>)
    ELSE splitFrom(Tail(s), Append(acc, s[1]))

\* lib/textutil sentencify: the sentences of a text, trimmed, none empty
sentencify(text) == splitFrom(text, <<>>)

RECURSIVE joinSpaces(_)
\* variant: array.join(' ')
joinSpaces(arr) ==
    IF arr = <<>> THEN <<>>
    ELSE IF Len(arr) = 1 THEN arr[1]
    ELSE arr[1] \o <<SPACE>> \o joinSpaces(Tail(arr))

RECURSIVE joinLines(_)
\* array.join('\n')
joinLines(arr) ==
    IF arr = <<>> THEN <<>>
    ELSE IF Len(arr) = 1 THEN arr[1]
    ELSE arr[1] \o <<LF>> \o joinLines(Tail(arr))

----------------------------------------------------------------------------
(* The Map textCache                                                       *)

MapHas(m, k) == \E i \in 1..Len(m) : m[i].key = k
MapGet(m, k) == m[CHOOSE i \in 1..Len(m) : m[i].key = k].value
MapKeys(m) == [i \in 1..Len(m) |-> m[i].key]
\* variant: the newest entry is deleted instead of the oldest
MapDeleteNewest(m) == IF m = <<>> THEN m ELSE SubSeq(m, 1, Len(m) - 1)

\* Map.delete(k); deleting undefined (the first key of an empty map) does nothing
MapDeleteFirst(m) == IF m = <<>> THEN m ELSE Tail(m)
\* Map.set(k, v): a new key goes last, a present key keeps its place
MapSet(m, k, v) ==
    IF MapHas(m, k)
    THEN [i \in 1..Len(m) |-> IF m[i].key = k THEN [key |-> k, value |-> v] ELSE m[i]]
    ELSE Append(m, [key |-> k, value |-> v])

\* variant: the capacity test is size > maxCacheSize
getCachedTextLateEviction(e, cfg, r, lostNow, cache, filename) ==
    LET cacheKey == basename(filename)
    IN  IF MapHas(cache, cacheKey)
        THEN [threw |-> FALSE, text |-> MapGet(cache, cacheKey), cache |-> cache,
              read |-> FALSE, evicted |-> <<>>]
        ELSE LET g == gettext(e, r, lostNow, filename)
             IN  IF g.threw
                 THEN [threw |-> TRUE, text |-> <<>>, cache |-> cache,
                       read |-> TRUE, evicted |-> <<>>]
                 ELSE LET kept == IF Len(cache) > cfg.maxCacheSize
                                  THEN MapDeleteFirst(cache) ELSE cache
                      IN  [threw |-> FALSE, text |-> g.text,
                           cache |-> MapSet(kept, cacheKey, g.text), read |-> TRUE,
                           evicted |-> SubSeq(MapKeys(cache), 1, Len(cache) - Len(kept))]

\* variant: a hit re-inserts the entry, which makes it the newest (true LRU)
getCachedTextRefreshOnHit(e, cfg, r, lostNow, cache, filename) ==
    LET cacheKey == basename(filename)
    IN  IF MapHas(cache, cacheKey)
        THEN [threw |-> FALSE, text |-> MapGet(cache, cacheKey),
              cache |-> Append(SelectSeq(cache, LAMBDA en : en.key # cacheKey),
                               [key |-> cacheKey, value |-> MapGet(cache, cacheKey)]),
              read |-> FALSE, evicted |-> <<>>]
        ELSE LET g == gettext(e, r, lostNow, filename)
             IN  IF g.threw
                 THEN [threw |-> TRUE, text |-> <<>>, cache |-> cache,
                       read |-> TRUE, evicted |-> <<>>]
                 ELSE LET kept == IF Len(cache) >= cfg.maxCacheSize
                                  THEN MapDeleteFirst(cache) ELSE cache
                      IN  [threw |-> FALSE, text |-> g.text,
                           cache |-> MapSet(kept, cacheKey, g.text), read |-> TRUE,
                           evicted |-> SubSeq(MapKeys(cache), 1, Len(cache) - Len(kept))]

\* variant: room is made before the file is read
getCachedTextEvictBeforeRead(e, cfg, r, lostNow, cache, filename) ==
    LET cacheKey == basename(filename)
    IN  IF MapHas(cache, cacheKey)
        THEN [threw |-> FALSE, text |-> MapGet(cache, cacheKey), cache |-> cache,
              read |-> FALSE, evicted |-> <<>>]
        ELSE LET kept == IF Len(cache) >= cfg.maxCacheSize
                         THEN MapDeleteFirst(cache) ELSE cache
                 g == gettext(e, r, lostNow, filename)
             IN  IF g.threw
                 THEN [threw |-> TRUE, text |-> <<>>, cache |-> kept,
                       read |-> TRUE, evicted |-> SubSeq(MapKeys(cache), 1, Len(cache) - Len(kept))]
                 ELSE [threw |-> FALSE, text |-> g.text,
                       cache |-> MapSet(kept, cacheKey, g.text), read |-> TRUE,
                       evicted |-> SubSeq(MapKeys(cache), 1, Len(cache) - Len(kept))]

\* variant: a failed read is cached too and rethrown on every later hit
getCachedTextCachesFailure(e, cfg, r, lostNow, cache, filename) ==
    LET cacheKey == basename(filename)
        failure == <<-1>>
    IN  IF MapHas(cache, cacheKey)
        THEN [threw |-> MapGet(cache, cacheKey) = failure,
              text |-> IF MapGet(cache, cacheKey) = failure THEN <<>> ELSE MapGet(cache, cacheKey),
              cache |-> cache, read |-> FALSE, evicted |-> <<>>]
        ELSE LET g == gettext(e, r, lostNow, filename)
                 kept == IF Len(cache) >= cfg.maxCacheSize
                         THEN MapDeleteFirst(cache) ELSE cache
             IN  [threw |-> g.threw, text |-> g.text,
                  cache |-> MapSet(kept, cacheKey, IF g.threw THEN failure ELSE g.text),
                  read |-> TRUE,
                  evicted |-> SubSeq(MapKeys(cache), 1, Len(cache) - Len(kept))]

\* variant: a cached text is read from disk again before it is returned
getCachedTextRereads(e, cfg, r, lostNow, cache, filename) ==
    LET cacheKey == basename(filename)
        g == gettext(e, r, lostNow, filename)
    IN  IF g.threw
        THEN [threw |-> TRUE, text |-> <<>>, cache |-> cache, read |-> TRUE, evicted |-> <<>>]
        ELSE IF MapHas(cache, cacheKey)
        THEN [threw |-> FALSE, text |-> MapGet(cache, cacheKey), cache |-> cache,
              read |-> TRUE, evicted |-> <<>>]
        ELSE LET kept == IF Len(cache) >= cfg.maxCacheSize
                         THEN MapDeleteFirst(cache) ELSE cache
             IN  [threw |-> FALSE, text |-> g.text,
                  cache |-> MapSet(kept, cacheKey, g.text), read |-> TRUE,
                  evicted |-> SubSeq(MapKeys(cache), 1, Len(cache) - Len(kept))]

\* getCachedText(filename): the outcome and the cache it leaves behind
getCachedText(e, cfg, r, lostNow, cache, filename) ==
    LET cacheKey == basename(filename)
    IN  IF MapHas(cache, cacheKey)
        THEN [threw |-> FALSE, text |-> MapGet(cache, cacheKey), cache |-> cache,
              read |-> FALSE, evicted |-> <<>>]
        ELSE LET g == gettext(e, r, lostNow, filename)
             IN  IF g.threw
                 THEN [threw |-> TRUE, text |-> <<>>, cache |-> cache,
                       read |-> TRUE, evicted |-> <<>>]
                 ELSE LET kept == IF Len(cache) >= cfg.maxCacheSize
                                  THEN MapDeleteFirst(cache) ELSE cache
                      IN  [threw |-> FALSE, text |-> g.text,
                           cache |-> MapSet(kept, cacheKey, g.text), read |-> TRUE,
                           evicted |-> SubSeq(MapKeys(cache), 1, Len(cache) - Len(kept))]

\* require(filename) of a sentence module: the module cache answers first
requireModule(e, r, lostNow, loaded, filename) ==
    LET rel == RelTo(r, filename)
    IN  IF filename \in loaded THEN [threw |-> FALSE, value |-> SentenceModules[rel]]
        ELSE IF rel \in DOMAIN SentenceModules /\ readFileSync(e, r, lostNow, filename).ok
             THEN [threw |-> FALSE, value |-> SentenceModules[rel]]
        ELSE [threw |-> TRUE, value |-> <<>>]

----------------------------------------------------------------------------
(* The constructor as a whole                                              *)

\* variant: the constructor loads the first text file into the cache
ConstructionPreloads(e, o) ==
    LET cfg   == MakeConfig(e, o)
        r     == getCorpusPath(cfg, e)
        books == walkSync(e, cfg, r, r, Undefined)
        first == gettext(e, r, {}, books.list[1])
    IN  [threw  |-> ~books.defined,
         config |-> cfg,
         root   |-> r,
         cache  |-> IF books.list # <<>> /\ ~first.threw
                    THEN <<[key |-> basename(books.list[1]), value |-> first.text]>>
                    ELSE <<>>,
         texts  |-> [i \in 1..Len(books.list) |-> Descriptor(r, books.list[i])]]

\* the constructor up to this.texts = texts
Construction(e, o) ==
    LET cfg   == MakeConfig(e, o)
        r     == getCorpusPath(cfg, e)
        books == walkSync(e, cfg, r, r, Undefined)
    IN  [threw  |-> ~books.defined,
         config |-> cfg,
         root   |-> r,
         cache  |-> <<>>,
         texts  |-> [i \in 1..Len(books.list) |-> Descriptor(r, books.list[i])]]

----------------------------------------------------------------------------
(* filter(): new RegExp(filter, 'i') over the names                        *)

\* the filter strings callers pass
Patterns == { <<>>, <<"a">>, <<"A">>, <<"d", "/">>, <<"s", ".">>, <<"z">>, <<"[", "a">> }

\* new RegExp(p, 'i') throws a SyntaxError for an unterminated character class
regexpThrows(p) ==
    \E i \in 1..Len(p) : p[i] = "[" /\ ~(\E j \in (i + 1)..Len(p) : p[j] = "]")

\* case folding of the 'i' flag
Fold(a) == IF a = "A" THEN "a" ELSE IF a = "D" THEN "d" ELSE IF a = "S" THEN "s" ELSE a

\* one pattern atom against one atom of the name; '.' matches any atom
AtomMatches(pa, a) == pa = "." \/ Fold(pa) = Fold(a)

\* variant: the pattern has to match the whole name
nameMatchesWhole(name, p) ==
    /\ Len(name) = Len(p)
    /\ \A j \in 1..Len(p) : AtomMatches(p[j], name[j])

\* name.match(r) !== null: the pattern matches somewhere inside the name
nameMatches(name, p) ==
    \E i \in 1..(Len(name) - Len(p) + 1) :
        \A j \in 1..Len(p) : AtomMatches(p[j], name[i + j - 1])

\* texts.filter(m => m.name.match(r) !== null), as the indices kept
RECURSIVE keepMatching(_, _, _)
keepMatching(ts, p, i) ==
    IF i > Len(ts) THEN <<>>
    ELSE (IF nameMatches(ts[i].name, p) THEN <<i>> ELSE <<>>) \o keepMatching(ts, p, i + 1)

\* variant: the SyntaxError of new RegExp is not caught
filterUncaught(ts, p) ==
    IF regexpThrows(p) THEN [threw |-> TRUE, found |-> <<>>]
    ELSE [threw |-> FALSE, found |-> keepMatching(ts, p, 1)]

filter(ts, p) ==
    IF regexpThrows(p) THEN [threw |-> FALSE, found |-> <<>>]
    ELSE [threw |-> FALSE, found |-> keepMatching(ts, p, 1)]

----------------------------------------------------------------------------
(* State machine                                                           *)

\* last: the call, whether it threw, what it returned (text, sents, found or
\* the three statistics), whether it read a file from disk, which cache keys
\* it removed and whether it caught an error on the way; for an invocation of
\* a handler also whether it built a Corpora instance and its status code
NoCall == [op |-> "none", doc |-> 0, path |-> <<>>, threw |-> FALSE,
           text |-> <<>>, sents |-> <<>>, found |-> <<>>,
           read |-> FALSE, evicted |-> <<>>, caught |-> FALSE,
           cacheSize |-> 0, maxCacheSize |-> 0, cachedTexts |-> <<>>,
           built |-> FALSE, statusCode |-> 0]

NotRecorded == -1

\* no run of PoeticalBot yet
NoEvent == [source |-> "none", records |-> <<>>, action |-> "none", poem |-> FALSE,
            gen |-> "poem", po |-> "posted"]

NoRun == [kind |-> "none", args |-> <<>>, event |-> NoEvent,
          displayed |-> FALSE, postCalls |-> 0, exitCode |-> 0,
          statusCode |-> 0, results |-> <<>>]

NoBot == [postLive |-> FALSE, credentials |-> TRUE, run |-> NoRun]

\* the history of failures after a call on document i
Recorded(i, failed) == IF failedDoc # NotRecorded /\ failed THEN i ELSE failedDoc

Call(op, doc) == [NoCall EXCEPT !.op = op, !.doc = doc]

\* options objects passed to the constructor
OptionChoices ==
    {[hasMax |-> FALSE, maxCacheSize |-> 0, rootPathOverride |-> <<>>]}
    \cup {[hasMax |-> TRUE, maxCacheSize |-> c, rootPathOverride |-> <<>>] : c \in (-1)..MaxCap}

\* a root the caller asks for in the options
OverridePath == <<"/override">>

\* the options considered for construction: with or without rootPathOverride
CtorOptionChoices ==
    OptionChoices \cup {[o EXCEPT !.rootPathOverride = OverridePath] : o \in OptionChoices}

\* host environments in which the whole tree can be scanned
GoodEnvs ==
    {[lambda |-> l, corpusPath |-> <<>>, rootExists |-> TRUE, lockedDirs |-> {}, badStat |-> {}] :
        l \in BOOLEAN}

\* every host environment considered for construction
AllEnvs ==
    {[lambda |-> l, corpusPath |-> cp, rootExists |-> x, lockedDirs |-> ld, badStat |-> bs] :
        l \in BOOLEAN, cp \in {<<>>, CustomCorpusPath}, x \in BOOLEAN,
        ld \in {{}, {<<>>}, {<<"d", "/">>}, {<<"sentences", "/">>}}, bs \in {{}, {<<"b", ".txt">>}}}

\* the instance as the constructor leaves it
Constructed(e, o) ==
    LET c == Construction(e, o)
    IN  /\ env = e
        /\ options = o
        /\ phase = IF c.threw THEN "threw" ELSE "ready"
        /\ config = c.config
        /\ root = c.root
        /\ texts = IF c.threw THEN <<>> ELSE c.texts
        /\ textCache = IF c.threw THEN <<>> ELSE c.cache
        /\ lost = {}
        /\ requireCache = {}
        /\ last = NoCall
        /\ bot = NoBot

Init ==
    /\ \E e \in GoodEnvs, o \in OptionChoices : Constructed(e, o)
    /\ failedDoc = NotRecorded

Ready == phase = "ready"

\* variant: the joined text of a sentence module is kept in the cache as well
TextCachesModules(i) ==
    /\ Ready
    /\ i \in 1..Len(texts)
    /\ IF texts[i].kind = "raw"
       THEN LET g == getCachedText(env, config, root, lost, textCache, texts[i].filename)
            IN  /\ textCache' = g.cache
                /\ last' = [Call("text", i) EXCEPT !.threw = g.threw, !.text = g.text,
                                                   !.read = g.read, !.evicted = g.evicted]
                /\ failedDoc' = Recorded(i, g.threw)
                /\ UNCHANGED requireCache
       ELSE LET m == requireModule(env, root, lost, requireCache, texts[i].filename)
                key == basename(texts[i].filename)
                kept == IF Len(textCache) >= config.maxCacheSize
                        THEN MapDeleteFirst(textCache) ELSE textCache
            IN  /\ last' = [Call("text", i) EXCEPT
                                !.text = IF m.threw THEN <<>> ELSE joinLines(m.value),
                                !.read = texts[i].filename \notin requireCache,
                                !.caught = m.threw]
                /\ requireCache' = IF m.threw THEN requireCache ELSE requireCache \cup {texts[i].filename}
                /\ failedDoc' = Recorded(i, m.threw)
                /\ textCache' = IF m.threw \/ MapHas(textCache, key) THEN textCache
                                ELSE MapSet(kept, key, joinLines(m.value))
    /\ UNCHANGED <<phase, env, options, bot, config, root, texts, lost>>

\* texts[i].text()
Text(i) ==
    /\ Ready
    /\ i \in 1..Len(texts)
    /\ IF texts[i].kind = "raw"
       THEN LET g == getCachedText(env, config, root, lost, textCache, texts[i].filename)
            IN  /\ textCache' = g.cache
                /\ last' = [Call("text", i) EXCEPT !.threw = g.threw, !.text = g.text,
                                                   !.read = g.read, !.evicted = g.evicted]
                /\ failedDoc' = Recorded(i, g.threw)
                /\ UNCHANGED requireCache
       ELSE LET m == requireModule(env, root, lost, requireCache, texts[i].filename)
            IN  /\ last' = [Call("text", i) EXCEPT
                                !.text = IF m.threw THEN <<>> ELSE joinLines(m.value),
                                !.read = texts[i].filename \notin requireCache,
                                !.caught = m.threw]
                /\ requireCache' = IF m.threw THEN requireCache ELSE requireCache \cup {texts[i].filename}
                /\ failedDoc' = Recorded(i, m.threw)
                /\ UNCHANGED textCache
    /\ UNCHANGED <<phase, env, options, bot, config, root, texts, lost>>

\* variant: the sentences closure of a text file has no try/catch
SentencesUncaught(i, splitFails) ==
    /\ Ready
    /\ i \in 1..Len(texts)
    /\ IF texts[i].kind = "raw"
       THEN LET g == getCachedText(env, config, root, lost, textCache, texts[i].filename)
                failed == g.threw \/ splitFails
            IN  /\ textCache' = g.cache
                /\ last' = [Call("sentences", i) EXCEPT
                                !.threw = failed,
                                !.sents = IF failed THEN <<>> ELSE sentencify(g.text),
                                !.read = g.read, !.evicted = g.evicted]
                /\ failedDoc' = Recorded(i, failed)
                /\ UNCHANGED requireCache
       ELSE LET m == requireModule(env, root, lost, requireCache, texts[i].filename)
            IN  /\ ~splitFails
                /\ last' = [Call("sentences", i) EXCEPT
                                !.sents = IF m.threw THEN <<>> ELSE m.value,
                                !.read = texts[i].filename \notin requireCache,
                                !.caught = m.threw]
                /\ requireCache' = IF m.threw THEN requireCache ELSE requireCache \cup {texts[i].filename}
                /\ failedDoc' = Recorded(i, m.threw)
                /\ UNCHANGED textCache
    /\ UNCHANGED <<phase, env, options, bot, config, root, texts, lost>>

\* variant: the sentences closure reads the file itself and leaves the cache alone
SentencesUncached(i, splitFails) ==
    /\ Ready
    /\ i \in 1..Len(texts)
    /\ IF texts[i].kind = "raw"
       THEN LET g == gettext(env, root, lost, texts[i].filename)
                failed == g.threw \/ splitFails
            IN  /\ last' = [Call("sentences", i) EXCEPT
                                !.sents = IF failed THEN <<>> ELSE sentencify(g.text),
                                !.read = TRUE, !.caught = failed]
                /\ failedDoc' = Recorded(i, failed)
                /\ UNCHANGED <<textCache, requireCache>>
       ELSE LET m == requireModule(env, root, lost, requireCache, texts[i].filename)
            IN  /\ ~splitFails
                /\ last' = [Call("sentences", i) EXCEPT
                                !.sents = IF m.threw THEN <<>> ELSE m.value,
                                !.read = texts[i].filename \notin requireCache,
                                !.caught = m.threw]
                /\ requireCache' = IF m.threw THEN requireCache ELSE requireCache \cup {texts[i].filename}
                /\ failedDoc' = Recorded(i, m.threw)
                /\ UNCHANGED textCache
    /\ UNCHANGED <<phase, env, options, bot, config, root, texts, lost>>

\* texts[i].sentences(); splitFails: sentencify throws on this text
Sentences(i, splitFails) ==
    /\ Ready
    /\ i \in 1..Len(texts)
    /\ IF texts[i].kind = "raw"
       THEN LET g == getCachedText(env, config, root, lost, textCache, texts[i].filename)
                failed == g.threw \/ splitFails
            IN  /\ textCache' = g.cache
                /\ last' = [Call("sentences", i) EXCEPT
                                !.sents = IF failed THEN <<>> ELSE sentencify(g.text),
                                !.read = g.read, !.evicted = g.evicted,
                                !.caught = failed]
                /\ failedDoc' = Recorded(i, failed)
                /\ UNCHANGED requireCache
       ELSE LET m == requireModule(env, root, lost, requireCache, texts[i].filename)
            IN  /\ ~splitFails
                /\ last' = [Call("sentences", i) EXCEPT
                                !.sents = IF m.threw THEN <<>> ELSE m.value,
                                !.read = texts[i].filename \notin requireCache,
                                !.caught = m.threw]
                /\ requireCache' = IF m.threw THEN requireCache ELSE requireCache \cup {texts[i].filename}
                /\ failedDoc' = Recorded(i, m.threw)
                /\ UNCHANGED textCache
    /\ UNCHANGED <<phase, env, options, bot, config, root, texts, lost>>

\* variant: the matches replace the texts array
FilterInPlace(p) ==
    /\ Ready
    /\ LET f == filter(texts, p)
       IN  /\ last' = [Call("filter", 0) EXCEPT !.path = p, !.threw = f.threw, !.found = f.found]
           /\ texts' = [k \in 1..Len(f.found) |-> texts[f.found[k]]]
    /\ UNCHANGED <<phase, env, options, bot, config, root, textCache, lost, requireCache, failedDoc>>

\* filter(p)
Filter(p) ==
    /\ Ready
    /\ LET f == filter(texts, p)
       IN  last' = [Call("filter", 0) EXCEPT !.path = p, !.threw = f.threw, !.found = f.found]
    /\ UNCHANGED <<phase, env, options, bot, config, root, texts, textCache, lost, requireCache, failedDoc>>

\* the paths callers hand to readFile: every file of the tree and one that does not exist
ReadPaths == {root \o <<"/">> \o f : f \in FilesRel} \cup {<<"/", "nonexistent", "/", "file", ".txt">>}

\* variant: readFile is served by the cache
ReadFileCached(p) ==
    /\ Ready
    /\ LET g == getCachedText(env, config, root, lost, textCache, p)
       IN  /\ last' = [Call("readFile", 0) EXCEPT !.path = p, !.threw = g.threw, !.text = g.text,
                                                   !.read = g.read]
           /\ textCache' = g.cache
    /\ UNCHANGED <<phase, env, options, bot, config, root, texts, lost, requireCache, failedDoc>>

\* readFile(path) = gettext(path)
ReadFile(p) ==
    /\ Ready
    /\ LET g == gettext(env, root, lost, p)
       IN  last' = [Call("readFile", 0) EXCEPT !.path = p, !.threw = g.threw, !.text = g.text,
                                               !.read = TRUE]
    /\ UNCHANGED <<phase, env, options, bot, config, root, texts, textCache, lost, requireCache, failedDoc>>

\* variant: only the oldest entry is dropped
ClearCacheOldestOnly ==
    /\ Ready
    /\ textCache' = MapDeleteFirst(textCache)
    /\ last' = [Call("clearCache", 0) EXCEPT
                    !.evicted = SubSeq(MapKeys(textCache), 1, Len(textCache) - Len(textCache'))]
    /\ UNCHANGED <<phase, env, options, bot, config, root, texts, lost, requireCache, failedDoc>>

\* clearCache()
ClearCache ==
    /\ Ready
    /\ textCache' = <<>>
    /\ last' = [Call("clearCache", 0) EXCEPT !.evicted = MapKeys(textCache)]
    /\ UNCHANGED <<phase, env, options, bot, config, root, texts, lost, requireCache, failedDoc>>

\* getCacheStats()
GetCacheStats ==
    /\ Ready
    /\ last' = [Call("getCacheStats", 0) EXCEPT
                    !.cacheSize = Len(textCache),
                    !.maxCacheSize = config.maxCacheSize,
                    !.cachedTexts = MapKeys(textCache)]
    /\ UNCHANGED <<phase, env, options, bot, config, root, texts, textCache, lost, requireCache, failedDoc>>

\* the host: a file of the corpus becomes unreadable (removed, permissions)
FileLost(f) ==
    /\ Ready
    /\ f \notin lost
    /\ Cardinality(lost) < MaxLost
    /\ lost' = lost \cup {f}
    /\ UNCHANGED <<phase, env, options, bot, config, root, texts, textCache, requireCache, last, failedDoc>>

\* the host: an unreadable file becomes readable again
FileRestored(f) ==
    /\ Ready
    /\ f \in lost
    /\ lost' = lost \ {f}
    /\ UNCHANGED <<phase, env, options, bot, config, root, texts, textCache, requireCache, last, failedDoc>>

ScannedFiles == {texts[i].filename : i \in 1..Len(texts)}

Next ==
    \/ \E i \in 1..Len(texts) : Text(i)
    \/ \E i \in 1..Len(texts), b \in BOOLEAN : Sentences(i, b)
    \/ \E p \in Patterns : Filter(p)
    \/ \E p \in ReadPaths : ReadFile(p)
    \/ ClearCache
    \/ GetCacheStats
    \/ \E f \in ScannedFiles : FileLost(f)
    \/ \E f \in ScannedFiles : FileRestored(f)

Spec == Init /\ [][Next]_vars

\* the same instance with the history of failures recorded
InitFailures ==
    /\ \E e \in GoodEnvs :
           Constructed(e, [hasMax |-> TRUE, maxCacheSize |-> 1, rootPathOverride |-> <<>>])
    /\ failedDoc = 0

SpecFailures == InitFailures /\ [][Next]_vars

\* new Corpora(options): from the call to the instance, or to the exception
Construct ==
    /\ phase = "scanning"
    /\ LET c == Construction(env, options)
       IN  /\ phase' = IF c.threw THEN "threw" ELSE "ready"
           /\ config' = c.config
           /\ root' = c.root
           /\ texts' = IF c.threw THEN <<>> ELSE c.texts
           /\ textCache' = IF c.threw THEN <<>> ELSE c.cache
    /\ UNCHANGED <<env, options, bot, lost, requireCache, last, failedDoc>>

InitCtor ==
    /\ phase = "scanning"
    /\ env \in AllEnvs
    /\ options \in CtorOptionChoices
    /\ config = [maxCacheSize |-> 0, isLambda |-> FALSE]
    /\ root = <<>>
    /\ texts = <<>>
    /\ textCache = <<>>
    /\ lost = {}
    /\ requireCache = {}
    /\ last = NoCall
    /\ failedDoc = NotRecorded
    /\ bot = NoBot

NextCtor == Construct

SpecCtor == InitCtor /\ [][NextCtor]_vars

----------------------------------------------------------------------------
(* Properties                                                              *)

\* a step taken by a call on the instance (the host's steps change lost)
CallStep == lost' = lost

\* the cache key getCachedText uses for texts[i]
DocKey(i) == basename(texts[i].filename)

IsRaw(i) == i \in 1..Len(texts) /\ texts[i].kind = "raw"

\* C1: with a positive capacity c the cache never holds more than c entries,
\* whatever calls have been made
CacheWithinCapacity ==
    (Ready /\ config.maxCacheSize >= 1) => Len(textCache) <= config.maxCacheSize

\* a text() call has just evicted an entry and the cache is full again
CacheWithinCapacityWitness ==
    /\ Ready
    /\ config.maxCacheSize >= 1
    /\ last.op = "text"
    /\ Len(last.evicted) = 1
    /\ Len(textCache) = config.maxCacheSize

ZeroCapacityRetainsNothing ==
    (Ready /\ config.maxCacheSize = 0) => Len(textCache) = 0

\* C5: a text() call that fails leaves the cache exactly as it was
FailedLoadLeavesCache ==
    [][ (CallStep /\ last'.op = "text" /\ last'.threw) => textCache' = textCache ]_vars

\* text() has just failed on a full cache
FailedLoadLeavesCacheWitness ==
    /\ Ready
    /\ config.maxCacheSize >= 1
    /\ Len(textCache) = config.maxCacheSize
    /\ last.op = "text"
    /\ last.threw

\* what text() on texts[i] returns when nothing goes wrong
TextSucceeded(i, call) ==
    /\ ~call.threw
    /\ texts[i].kind = "sentences"
         => call.text = joinLines(SentenceModules[RelTo(root, texts[i].filename)])

\* C6: once text() or sentences() has failed for one document, text() on any
\* other document whose file is readable still succeeds
OtherDocumentsStayAccessible ==
    [][ ( /\ CallStep
          /\ last'.op = "text"
          /\ failedDoc \notin {NotRecorded, 0}
          /\ failedDoc # last'.doc
          /\ readFileSync(env, root, lost, texts[last'.doc].filename).ok )
        => TextSucceeded(last'.doc, last') ]_vars

\* a document was read from disk after a call on another document had failed
OtherDocumentsStayAccessibleWitness ==
    /\ Ready
    /\ failedDoc \notin {NotRecorded, 0}
    /\ last.op = "text"
    /\ last.doc # failedDoc
    /\ last.read
    /\ ~last.threw

\* C7: construction over a root directory that does not exist completes
\* and yields an empty document list
MissingRootYieldsEmptyCorpus ==
    (phase # "scanning" /\ ~env.rootExists) => (phase = "ready" /\ texts = <<>>)

\* C8: construction with a negative cache capacity throws
NegativeCapacityRejected ==
    (phase # "scanning" /\ options.hasMax /\ options.maxCacheSize < 0) => phase = "threw"

\* C9: filter() never throws, and an invalid pattern yields the empty sequence
FilterNeverThrows ==
    last.op = "filter" => (~last.threw /\ (regexpThrows(last.path) => last.found = <<>>))

\* filter() was called with an invalid pattern on a corpus that has documents
FilterNeverThrowsWitness ==
    /\ Ready
    /\ texts # <<>>
    /\ last.op = "filter"
    /\ regexpThrows(last.path)
    /\ last.found = <<>>

\* C10: no call changes the document list
TextsNeverChange == [][texts' = texts]_vars

\* filter() has returned a proper, non-empty part of the list while texts are cached
TextsNeverChangeWitness ==
    /\ Ready
    /\ textCache # <<>>
    /\ last.op = "filter"
    /\ last.found # <<>>
    /\ Len(last.found) < Len(texts)
    /\ texts = Construction(env, options).texts

\* the atoms of a string without their case
FoldAll(str) == [k \in 1..Len(str) |-> Fold(str[k])]

\* a pattern made of literal atoms only
IsLiteral(p) == \A k \in 1..Len(p) : p[k] \notin {".", "["}

LoadsContent ==
    \/ \E k \in 1..Len(textCache') : ~MapHas(textCache, textCache'[k].key)
    \/ requireCache' # requireCache

\* C12: construction loads no document content: before the first call the
\* cache is empty and no module is loaded; content is loaded only by a
\* text() or sentences() call, which reads the file of its own document
LoadsAreLazy ==
    /\ [](last.op = "none" => (textCache = <<>> /\ requireCache = {}))
    /\ [][ LoadsContent =>
             /\ last'.op \in {"text", "sentences"}
             /\ last'.read
             /\ IF IsRaw(last'.doc)
                THEN /\ Last(textCache').key = DocKey(last'.doc)
                     /\ requireCache' = requireCache
                ELSE /\ requireCache' = requireCache \cup {texts[last'.doc].filename}
                     /\ textCache' = textCache ]_vars

\* the first call on a fresh instance was text() and it read the file
LoadsAreLazyWitness ==
    /\ Ready
    /\ texts # <<>>
    /\ last.op = "text"
    /\ last.read
    /\ ~last.threw
    /\ Len(textCache) + Cardinality(requireCache) = 1

\* C13: after text() has loaded an uncached text file (capacity >= 1) the
\* cache has an entry whose key is the name of the document
CacheKeyIsDocumentName ==
    ( /\ Ready
      /\ config.maxCacheSize >= 1
      /\ last.op = "text"
      /\ IsRaw(last.doc)
      /\ last.read
      /\ ~last.threw )
    => MapHas(textCache, texts[last.doc].name)

\* C14: clearCache() leaves the cache empty whatever it held and does not
\* touch the configured capacity; statistics taken right after it report
\* size 0, no keys and the same capacity
ClearCacheEmpties ==
    /\ [][ (CallStep /\ last'.op = "clearCache")
             => (textCache' = <<>> /\ config' = config) ]_vars
    /\ [][ (CallStep /\ last.op = "clearCache" /\ last'.op = "getCacheStats")
             => /\ last'.cacheSize = 0
                /\ last'.cachedTexts = <<>>
                /\ last'.maxCacheSize = config.maxCacheSize ]_vars

\* clearCache() was called on a full cache of capacity 2
ClearCacheEmptiesWitness ==
    /\ Ready
    /\ config.maxCacheSize = 2
    /\ last.op = "clearCache"
    /\ Len(last.evicted) = 2
    /\ textCache = <<>>

\* C15: sentences() never throws; when loading or splitting fails it
\* returns the empty sequence
SentencesNeverThrows ==
    last.op = "sentences" => (~last.threw /\ (last.caught => last.sents = <<>>))

\* sentences() on a text file that cannot be read has returned []
SentencesNeverThrowsWitness ==
    /\ Ready
    /\ last.op = "sentences"
    /\ IsRaw(last.doc)
    /\ last.caught
    /\ last.sents = <<>>
    /\ texts[last.doc].filename \in lost

\* C16: readFile(path) throws when the file at path cannot be read
ReadFilePropagates ==
    [][ ( /\ CallStep
          /\ last'.op = "readFile"
          /\ ~readFileSync(env, root, lost, last'.path).ok )
        => last'.threw ]_vars

\* readFile() has thrown on the file of a listed document that became unreadable
ReadFilePropagatesWitness ==
    /\ Ready
    /\ last.op = "readFile"
    /\ last.threw
    /\ last.path \in ScannedFiles
    /\ last.path \in lost

\* the array a sentence file exports
StoredArray(i) == SentenceModules[RelTo(root, texts[i].filename)]

IsPresegmented(i) == i \in 1..Len(texts) /\ texts[i].kind = "sentences"

RECURSIVE SplitLines(_, _)
\* the lines of a text: the runs between line feeds
SplitLines(str, acc) ==
    IF str = <<>> THEN <<acc>>
    ELSE IF str[1] = LF THEN <<acc>> \o SplitLines(Tail(str), <<>>)
    ELSE SplitLines(Tail(str), Append(acc, str[1]))

\* what a call on a sentence file returns when the module is there
ReturnsStored(call) ==
    /\ ~call.threw
    /\ call.op = "sentences" => call.sents = StoredArray(call.doc)
    /\ call.op = "text" => SplitLines(call.text, <<>>) = StoredArray(call.doc)

\* C17 as stated: every sentences()/text() call on a sentence file returns
\* the stored array, resp. its strings joined by line feeds
PresegmentedAlwaysPassthrough ==
    (last.op \in {"text", "sentences"} /\ IsPresegmented(last.doc)) => ReturnsStored(last)

\* the module of texts[i] is in the module cache or its file can be read
CanRequire(i) ==
    \/ texts[i].filename \in requireCache
    \/ readFileSync(env, root, lost, texts[i].filename).ok

\* C17 amended: when the module of a sentence file can be loaded, sentences()
\* returns the stored array and text() its strings joined by line feeds;
\* when it cannot, sentences() returns [] and text() returns ''
PresegmentedPassthrough ==
    [][ ( /\ CallStep
          /\ last'.op \in {"text", "sentences"}
          /\ IsPresegmented(last'.doc) )
        => IF CanRequire(last'.doc)
           THEN ReturnsStored(last')
           ELSE ~last'.threw /\ last'.text = <<>> /\ last'.sents = <<>> ]_vars

\* text() on the sentence file has returned "A.\nB."
PresegmentedPassthroughWitness ==
    /\ Ready
    /\ last.op = "text"
    /\ IsPresegmented(last.doc)
    /\ last.text = <<65, 46, LF, 66, 46>>
    /\ StoredArray(last.doc) = << <<65, 46>>, <<66, 46>> >>

\* the file f of the tree (a path relative to the root) is in the document list
Listed(f) == \E i \in 1..Len(texts) : RelTo(root, texts[i].filename) = f

\* the file f lies in directory d or below it
Under(f, d) == Len(f) > Len(d) /\ SubSeq(f, 1, Len(d)) = d

UnderLocked(f) == \E d \in env.lockedDirs : Under(f, d)

\* f lies below a directory whose name carries the exclusion marker
UnderExcluded(f) == \E k \in 1..(Len(f) - 1) : f[k] = "###" /\ f[k + 1] = "/"

IsArchive(f) == Last(f) \in {".zip", ".7z"}

\* C18: when a directory below the root cannot be read, construction still
\* completes; the files below that directory are not listed and every
\* other file the scan accepts is
UnreadableSubtreeIsSkipped ==
    ( /\ phase # "scanning"
      /\ env.rootExists
      /\ env.lockedDirs # {}
      /\ <<>> \notin env.lockedDirs )
    => /\ phase = "ready"
       /\ \A f \in FilesRel :
            Listed(f) <=> ( /\ ~UnderLocked(f)
                            /\ ~UnderExcluded(f)
                            /\ f \notin env.badStat
                            /\ ~(env.lambda /\ IsArchive(f)) )

\* the directory d could not be read: a.txt of the root is listed, d/a.txt is not
UnreadableSubtreeIsSkippedWitness ==
    /\ phase = "ready"
    /\ env.lockedDirs = {<<"d", "/">>}
    /\ Listed(<<"a", ".txt">>)
    /\ ~Listed(<<"d", "/", "a", ".txt">>)
    /\ Listed(<<"sentences", "/", "s", ".js">>)

\* C19: in the Lambda environment construction does not fail on archives,
\* no .zip or .7z file is listed and every other file the scan accepts is
ArchivesSkippedInLambda ==
    ( /\ phase # "scanning"
      /\ config.isLambda
      /\ env.rootExists
      /\ <<>> \notin env.lockedDirs )
    => /\ phase = "ready"
       /\ \A i \in 1..Len(texts) : ~IsArchive(texts[i].filename)
       /\ \A f \in FilesRel :
            (~IsArchive(f) /\ ~UnderLocked(f) /\ ~UnderExcluded(f) /\ f \notin env.badStat)
                => Listed(f)

\* a Lambda scan has passed d/c.zip and listed its neighbour d/a.txt
ArchivesSkippedInLambdaWitness ==
    /\ phase = "ready"
    /\ config.isLambda
    /\ env.lockedDirs = {}
    /\ Listed(<<"d", "/", "a", ".txt">>)
    /\ ~Listed(<<"d", "/", "c", ".zip">>)

\* the directory of a path, with its final separator
DirPart(p) == SubSeq(p, 1, Len(p) - Len(basename(p)))

\* C20: no listed file lies in or below a directory whose path contains '###'
ExcludedDirectoriesNeverListed ==
    phase = "ready" =>
        \A i \in 1..Len(texts) : IndexOf(DirPart(texts[i].filename), <<"###">>) = 0

\* a complete scan of the tree, which has ###/x.txt and ###/n/y.txt
ExcludedDirectoriesNeverListedWitness ==
    /\ phase = "ready"
    /\ env.lockedDirs = {}
    /\ env.badStat = {}
    /\ <<"###", "/", "n", "/", "y", ".txt">> \in FilesRel
    /\ <<"###", "/", "x", ".txt">> \in FilesRel
    /\ ~Listed(<<"###", "/", "x", ".txt">>)
    /\ ~Listed(<<"###", "/", "n", "/", "y", ".txt">>)
    /\ Listed(<<"b", ".txt">>)

\* the root the caller asked for: the rootPathOverride option, else CORPUS_PATH
ExplicitOverride ==
    IF options.rootPathOverride # <<>> THEN options.rootPathOverride ELSE env.corpusPath

\* C21: whenever an explicit root-path override is configured, the resolved
\* root is that override, in the Lambda environment too
OverrideTakesPrecedence ==
    (phase # "scanning" /\ ExplicitOverride # <<>>) => root = ExplicitOverride

----------------------------------------------------------------------------
(* The example API handler of the Lambda layer, in one warm process         *)

\* new Corpora({ maxCacheSize: 5 })
HandlerMaxCacheSize == 5
HandlerOptions == [hasMax |-> TRUE, maxCacheSize |-> HandlerMaxCacheSize, rootPathOverride |-> <<>>]

Routes == {"OPTIONS", "/health", "/texts", "/text/", "/other"}

\* the names asked for with /text/{name}
RequestNames == { <<"A">>, <<"b">>, <<"d", "/", "a">>, <<"sentences", "/", "s">>, <<"z">> }

\* corpus.filter('^' + escaped name + '$'): the names equal to it, case aside
RECURSIVE exactMatches(_, _, _)
exactMatches(ts, name, i) ==
    IF i > Len(ts) THEN <<>>
    ELSE (IF FoldAll(ts[i].name) = FoldAll(name) THEN <<i>> ELSE <<>>)
         \o exactMatches(ts, name, i + 1)

\* variant: every invocation builds its own instance
NeedsCorpusAlways == TRUE

\* if (!corpus): the module variable holds no instance yet
NeedsCorpus == phase = "scanning"

\* exports.handler(event): route, category of /texts, name and sentences flag of /text/
Handler(route, category, name, includeSentences) ==
    LET cold == NeedsCorpus
        c    == Construction(env, HandlerOptions)
        ts   == IF cold THEN c.texts ELSE texts
        cfg  == IF cold THEN c.config ELSE config
        r    == IF cold THEN c.root ELSE root
        tc   == IF cold THEN c.cache ELSE textCache
        call == [Call("handler", 0) EXCEPT !.path = <<route>>, !.built = cold]
    IN  IF cold /\ c.threw
        THEN /\ last' = [call EXCEPT !.built = FALSE, !.caught = TRUE, !.statusCode = 500]
             /\ UNCHANGED <<phase, env, options, bot, config, root, texts, textCache, lost,
                            requireCache, failedDoc>>
        ELSE /\ phase' = "ready"
             /\ config' = cfg
             /\ root' = r
             /\ texts' = ts
             /\ UNCHANGED <<env, options, bot, lost, failedDoc>>
             /\ CASE route = "OPTIONS" ->
                       /\ last' = [call EXCEPT !.statusCode = 200]
                       /\ textCache' = tc
                       /\ UNCHANGED requireCache
                  [] route = "/health" ->
                       /\ last' = [call EXCEPT !.statusCode = 200,
                                               !.cacheSize = Len(tc),
                                               !.maxCacheSize = cfg.maxCacheSize,
                                               !.cachedTexts = MapKeys(tc)]
                       /\ textCache' = tc
                       /\ UNCHANGED requireCache
                  [] route = "/texts" ->
                       LET found == IF category = <<>> THEN [k \in 1..Len(ts) |-> k]
                                    ELSE filter(ts, category).found
                       IN  /\ last' = [call EXCEPT
                                          !.found = found,
                                          !.statusCode = IF category # <<>> /\ found = <<>>
                                                         THEN 404 ELSE 200]
                           /\ textCache' = tc
                           /\ UNCHANGED requireCache
                  [] route = "/text/" ->
                       LET matches == exactMatches(ts, name, 1)
                       IN  IF matches = <<>>
                           THEN /\ last' = [call EXCEPT !.found = filter(ts, name).found,
                                                        !.statusCode = 404]
                                /\ textCache' = tc
                                /\ UNCHANGED requireCache
                           ELSE LET i == matches[1]
                                IN  IF ts[i].kind = "raw"
                                    THEN LET g == getCachedText(env, cfg, r, lost, tc, ts[i].filename)
                                         IN  /\ textCache' = g.cache
                                             /\ last' = [call EXCEPT
                                                  !.doc = i, !.text = g.text, !.read = g.read,
                                                  !.evicted = g.evicted, !.caught = g.threw,
                                                  !.sents = IF includeSentences /\ ~g.threw
                                                            THEN sentencify(g.text) ELSE <<>>,
                                                  !.statusCode = IF g.threw THEN 500 ELSE 200]
                                             /\ UNCHANGED requireCache
                                    ELSE LET m == requireModule(env, r, lost, requireCache,
                                                                ts[i].filename)
                                         IN  /\ last' = [call EXCEPT
                                                  !.doc = i,
                                                  !.text = IF m.threw THEN <<>> ELSE joinLines(m.value),
                                                  !.sents = IF includeSentences /\ ~m.threw
                                                            THEN m.value ELSE <<>>,
                                                  !.read = ts[i].filename \notin requireCache,
                                                  !.statusCode = 200]
                                             /\ requireCache' =
                                                  IF m.threw THEN requireCache
                                                  ELSE requireCache \cup {ts[i].filename}
                                             /\ textCache' = tc
                  [] OTHER ->
                       /\ last' = [call EXCEPT !.statusCode = 404]
                       /\ textCache' = tc
                       /\ UNCHANGED requireCache

\* the Lambda hosts: the layer is mounted or not
WarmEnvs ==
    {[lambda |-> TRUE, corpusPath |-> <<>>, rootExists |-> x, lockedDirs |-> {}, badStat |-> {}] :
        x \in BOOLEAN}

\* a fresh process: the module is loaded, corpus is still undefined
InitWarm ==
    /\ phase = "scanning"
    /\ env \in WarmEnvs
    /\ options = HandlerOptions
    /\ config = [maxCacheSize |-> 0, isLambda |-> FALSE]
    /\ root = <<>>
    /\ texts = <<>>
    /\ textCache = <<>>
    /\ lost = {}
    /\ requireCache = {}
    /\ last = NoCall
    /\ failedDoc = NotRecorded
    /\ bot = NoBot

NextWarm ==
    \/ \E route \in Routes, category \in {<<>>, <<"a">>, <<"z">>},
          name \in RequestNames, includeSentences \in BOOLEAN :
            Handler(route, category, name, includeSentences)
    \/ \E f \in ScannedFiles : FileLost(f)
    \/ \E f \in ScannedFiles : FileRestored(f)

SpecWarm == InitWarm /\ [][NextWarm]_vars

\* C22: once the handler holds an instance, a later invocation builds no
\* other one: the documents, the configuration and the root stay the same and
\* whatever was cached before the invocation is still cached in the same
\* order when it serves the request
WarmInstanceReused ==
    [][ (phase = "ready" /\ CallStep /\ last'.op = "handler")
        => /\ ~last'.built
           /\ phase' = "ready"
           /\ texts' = texts /\ config' = config /\ root' = root
           /\ Len(textCache') >= Len(textCache)
           /\ SubSeq(textCache', 1, Len(textCache)) = textCache ]_vars

\* a warm invocation answered /text/{name} from the cache an earlier
\* invocation filled
WarmInstanceReusedWitness ==
    /\ phase = "ready"
    /\ last.op = "handler"
    /\ last.path = <<"/text/">>
    /\ ~last.built
    /\ last.statusCode = 200
    /\ last.doc > 0
    /\ texts[last.doc].kind = "raw"
    /\ ~last.read
    /\ Len(textCache) = 2

----------------------------------------------------------------------------
(* PoeticalBot: the command line interface (apps/poeticalbot/src/cli.js)    *)

\* longest argument list tried
MaxArgs == 2

\* the words of a command line
ArgWords == {"-h", "-p", "--post", "-m", "--seed", "-t", "-v", "true", "drone"}

ArgLists == UNION {[1..n -> ArgWords] : n \in 0..MaxArgs}

\* the options object parseArgs starts from
DefaultCliOptions ==
    [help |-> FALSE, post |-> FALSE, method |-> "null", seed |-> "null",
     corporaFilter |-> "null", transform |-> "null", verbose |-> FALSE]

\* args[++i]: reading beyond the end gives undefined
ArgAt(args, i) == IF i <= Len(args) THEN args[i] ELSE "undefined"

\* the for loop of parseArgs from argument i on; an option with a value
\* consumes the next word
RECURSIVE parseFrom(_, _, _)
parseFrom(args, i, o) ==
    IF i > Len(args) THEN o
    ELSE LET arg == args[i]
         IN  CASE arg \in {"-h", "--help"} -> parseFrom(args, i + 1, [o EXCEPT !.help = TRUE])
               [] arg \in {"-p", "--post"} -> parseFrom(args, i + 1, [o EXCEPT !.post = TRUE])
               [] arg \in {"-m", "--method"} ->
                      parseFrom(args, i + 2, [o EXCEPT !.method = ArgAt(args, i + 1)])
               [] arg \in {"-s", "--seed"} ->
                      parseFrom(args, i + 2, [o EXCEPT !.seed = ArgAt(args, i + 1)])
               [] arg \in {"-c", "--corpora-filter"} ->
                      parseFrom(args, i + 2, [o EXCEPT !.corporaFilter = ArgAt(args, i + 1)])
               [] arg \in {"-t", "--transform"} ->
                      parseFrom(args, i + 2,
                          [o EXCEPT !.transform = IF ArgAt(args, i + 1) = "true" THEN "true" ELSE "false"])
               [] arg \in {"-v", "--verbose"} -> parseFrom(args, i + 1, [o EXCEPT !.verbose = TRUE])
               [] OTHER -> parseFrom(args, i + 1, o)

parseArgs(args) == parseFrom(args, 1, DefaultCliOptions)

\* what poetifier.poem() does: a poem, nothing, or an exception
GenOutcomes == {"poem", "none", "error"}

\* what client.postPoem does with a poem: the post is created, createPost is
\* called and fails, or the poem is refused before createPost is called
PostOutcomes == {"posted", "rejected", "invalid"}

\* createPost was called
CallsTumblr(po) == po \in {"posted", "rejected"}

\* variant: the CLI posts whenever POST_LIVE is set
CliRunPostsWhenLive(args, gen, po) ==
    /\ bot.run.kind = "none"
    /\ LET o   == parseArgs(args)
           run == [NoRun EXCEPT !.kind = "cli", !.args = args]
           post == o.post \/ bot.postLive
       IN  /\ bot' = [bot EXCEPT !.run =
                 IF ~bot.credentials THEN [run EXCEPT !.exitCode = 1]
                 ELSE IF o.help THEN run
                 ELSE IF gen # "poem" THEN [run EXCEPT !.exitCode = 1]
                 ELSE IF ~post THEN [run EXCEPT !.displayed = TRUE]
                 ELSE [run EXCEPT !.displayed = TRUE,
                                  !.postCalls = IF CallsTumblr(po) THEN 1 ELSE 0,
                                  !.exitCode = IF po = "posted" THEN 0 ELSE 1]]
           /\ UNCHANGED <<phase, env, options, config, root, texts, textCache, lost,
                          requireCache, last, failedDoc>>

\* node src/cli.js args: config.js is loaded (it throws without the Tumblr
\* credentials), then CLI.run(args)
CliRun(args, gen, po) ==
    /\ bot.run.kind = "none"
    /\ LET o   == parseArgs(args)
           run == [NoRun EXCEPT !.kind = "cli", !.args = args]
       IN  /\ bot' = [bot EXCEPT !.run =
                 IF ~bot.credentials THEN [run EXCEPT !.exitCode = 1]
                 ELSE IF o.help THEN run
                 ELSE IF gen # "poem" THEN [run EXCEPT !.exitCode = 1]
                 ELSE IF ~o.post THEN [run EXCEPT !.displayed = TRUE]
                 ELSE [run EXCEPT !.displayed = TRUE,
                                  !.postCalls = IF CallsTumblr(po) THEN 1 ELSE 0,
                                  !.exitCode = IF po = "posted" THEN 0 ELSE 1]]
           /\ UNCHANGED <<phase, env, options, config, root, texts, textCache, lost,
                          requireCache, last, failedDoc>>

----------------------------------------------------------------------------
(* PoeticalBot: the Lambda handler (LambdaHandler in apps/poeticalbot/src)  *)

\* most records in one SQS event
MaxRecords == 2

\* an SQS record: its body, and what the poetifier or Tumblr does while it is
\* processed
RecordChoices ==
    {[body |-> b, gen |-> "poem", po |-> "posted"] : b \in {"unparsable", "null", "unknown"}}
    \cup {[body |-> "generate-poem", gen |-> g, po |-> "posted"] : g \in GenOutcomes}
    \cup {[body |-> "post-poem", gen |-> "poem", po |-> p] : p \in PostOutcomes}

RecordLists == UNION {[1..n -> RecordChoices] : n \in 0..MaxRecords}

\* the events the handler is invoked with; the position of a record is its messageId
Events ==
    {[NoEvent EXCEPT !.source = "aws.events", !.gen = g, !.po = p] :
        g \in GenOutcomes, p \in PostOutcomes}
    \cup {[NoEvent EXCEPT !.source = "aws:sqs", !.records = rs] : rs \in RecordLists}
    \cup {[NoEvent EXCEPT !.source = "direct", !.action = a, !.poem = pm, !.gen = g, !.po = p] :
            a \in {"generate-only", "post-only", "other"}, pm \in BOOLEAN,
            g \in GenOutcomes, p \in PostOutcomes}

\* generatePoem(): { poem, error }
generatePoem(g) == [poem |-> g = "poem", error |-> g # "poem"]

\* postPoem(poem): { success, error } and whether createPost was called
postPoem(p) == [success |-> p = "posted", error |-> p # "posted", called |-> CallsTumblr(p)]

\* generateAndPostPoem(): posts only when config.posting.enabled
generateAndPostPoem(live, g, p) ==
    IF generatePoem(g).error THEN [posted |-> FALSE, error |-> TRUE, calls |-> 0]
    ELSE IF live
         THEN [posted |-> postPoem(p).success, error |-> postPoem(p).error,
               calls |-> IF postPoem(p).called THEN 1 ELSE 0]
    ELSE [posted |-> FALSE, error |-> FALSE, calls |-> 0]

\* the body of the for loop of processSQSEvent for record k: the entry pushed
\* (error: the entry carries error; failed: its result carries an error) and
\* the createPost calls made
processRecord(k, rec) ==
    CASE rec.body \in {"unparsable", "null", "unknown"} ->
             [messageId |-> k, error |-> TRUE, failed |-> FALSE, calls |-> 0]
      [] rec.body = "generate-poem" ->
             [messageId |-> k, error |-> FALSE, failed |-> generatePoem(rec.gen).error, calls |-> 0]
      [] OTHER ->
             [messageId |-> k, error |-> FALSE, failed |-> postPoem(rec.po).error,
              calls |-> IF postPoem(rec.po).called THEN 1 ELSE 0]

\* variant: the first record that cannot be handled ends the loop
RECURSIVE processRecordsStopAtError(_, _, _)
processRecordsStopAtError(records, k, results) ==
    IF k > Len(records) THEN results
    ELSE LET entry == processRecord(k, records[k])
         IN  IF entry.error THEN Append(results, entry)
             ELSE processRecordsStopAtError(records, k + 1, Append(results, entry))

\* for (const record of event.Records) { try { ... } catch { ... } }
RECURSIVE processRecords(_, _, _)
processRecords(records, k, results) ==
    IF k > Len(records) THEN results
    ELSE processRecords(records, k + 1, Append(results, processRecord(k, records[k])))

RECURSIVE SumCalls(_, _)
SumCalls(results, k) ==
    IF k > Len(results) THEN 0 ELSE results[k].calls + SumCalls(results, k + 1)

\* handle(event): the route taken and the response
handle(live, event) ==
    LET run == [NoRun EXCEPT !.kind = "lambda", !.event = event]
    IN  IF event.source = "aws.events"
        THEN LET r == generateAndPostPoem(live, event.gen, event.po)
             IN  [run EXCEPT !.statusCode = IF r.error THEN 500 ELSE 200, !.postCalls = r.calls]
        ELSE IF event.source = "aws:sqs" /\ event.records # <<>>
        THEN LET results == processRecords(event.records, 1, <<>>)
             IN  [run EXCEPT !.statusCode = 200, !.results = results,
                             !.postCalls = SumCalls(results, 1)]
        ELSE IF event.action = "generate-only"
        THEN [run EXCEPT !.statusCode = IF generatePoem(event.gen).error THEN 500 ELSE 200]
        ELSE IF event.action = "post-only" /\ event.poem
        THEN LET r == postPoem(event.po)
             IN  [run EXCEPT !.statusCode = IF r.error THEN 500 ELSE 200,
                             !.postCalls = IF r.called THEN 1 ELSE 0]
        ELSE LET r == generateAndPostPoem(live, event.gen, event.po)
             IN  [run EXCEPT !.statusCode = IF r.error THEN 500 ELSE 200, !.postCalls = r.calls]

\* exports.handler(event): config.js is loaded with the module (it throws
\* without the Tumblr credentials), then new LambdaHandler().handle(event)
LambdaInvoke(event) ==
    /\ bot.run.kind \in {"none", "lambda"}
    /\ bot' = [bot EXCEPT !.run =
           IF ~bot.credentials
           THEN [NoRun EXCEPT !.kind = "lambda", !.event = event, !.exitCode = 1]
           ELSE handle(bot.postLive, event)]
    /\ UNCHANGED <<phase, env, options, config, root, texts, textCache, lost,
                   requireCache, last, failedDoc>>

\* a process of PoeticalBot before it has run: POST_LIVE set or not, the
\* Tumblr credentials configured or not
InitBot ==
    /\ phase = "scanning"
    /\ env \in {e \in GoodEnvs : ~e.lambda}
    /\ options = HandlerOptions
    /\ config = [maxCacheSize |-> 0, isLambda |-> FALSE]
    /\ root = <<>>
    /\ texts = <<>>
    /\ textCache = <<>>
    /\ lost = {}
    /\ requireCache = {}
    /\ last = NoCall
    /\ failedDoc = NotRecorded
    /\ bot \in {[NoBot EXCEPT !.postLive = l, !.credentials = c] : l, c \in BOOLEAN}

NextBot ==
    \/ \E args \in ArgLists, gen \in GenOutcomes, po \in PostOutcomes : CliRun(args, gen, po)
    \/ \E event \in Events : LambdaInvoke(event)

SpecBot == InitBot /\ [][NextBot]_vars

\* the command line asks for posting
PostRequested(args) == \E i \in 1..Len(args) : args[i] \in {"-p", "--post"}

OwnContent(i) == gettext(env, root, {}, texts[i].filename).text

\* C24: text() on a document kept in a text file returns the content of
\* that document's own file, whether it is served from the cache or from disk
TextIsOwnContent ==
    ( /\ Ready
      /\ last.op = "text"
      /\ IsRaw(last.doc)
      /\ ~last.threw )
    => last.text = OwnContent(last.doc)

\* C25: sentences() on a document kept in a text file that is not cached and
\* whose file can be read leaves the text of that file in the cache when the
\* capacity is at least 1, whether or not the split into sentences succeeds
SentencesFillsCache ==
    [][ ( /\ CallStep
          /\ last'.op = "sentences"
          /\ IsRaw(last'.doc)
          /\ ~MapHas(textCache, DocKey(last'.doc))
          /\ texts[last'.doc].filename \notin lost
          /\ config.maxCacheSize >= 1 )
        => /\ MapHas(textCache', DocKey(last'.doc))
           /\ MapGet(textCache', DocKey(last'.doc)) = OwnContent(last'.doc) ]_vars

\* the file was read, the split failed and gave [], and the text is cached
SentencesFillsCacheWitness ==
    /\ Ready
    /\ last.op = "sentences"
    /\ IsRaw(last.doc)
    /\ last.read
    /\ last.caught
    /\ last.sents = <<>>
    /\ lost = {}
    /\ MapHas(textCache, DocKey(last.doc))
    /\ MapGet(textCache, DocKey(last.doc)) = OwnContent(last.doc)

\* C26: after a successful text() on a document kept in a text file the
\* cache entry of the document, if it is there, holds the string returned; an
\* entry keeps its value as long as it stays in the cache; and a text() call
\* that finds the entry returns that value without reading the file and
\* without failing, also when the file has become unreadable
CachedTextIsStable ==
    /\ []( ( /\ Ready
             /\ last.op = "text"
             /\ IsRaw(last.doc)
             /\ ~last.threw
             /\ MapHas(textCache, DocKey(last.doc)) )
           => MapGet(textCache, DocKey(last.doc)) = last.text )
    /\ [][ \A k \in 1..Len(textCache) :
              MapHas(textCache', textCache[k].key)
                  => MapGet(textCache', textCache[k].key) = textCache[k].value ]_vars
    /\ [][ ( /\ CallStep
             /\ last'.op = "text"
             /\ IsRaw(last'.doc)
             /\ MapHas(textCache, DocKey(last'.doc)) )
           => /\ ~last'.threw
              /\ ~last'.read
              /\ last'.text = MapGet(textCache, DocKey(last'.doc))
              /\ textCache' = textCache ]_vars

\* text() answered from the cache while the file of the document is unreadable
CachedTextIsStableWitness ==
    /\ Ready
    /\ last.op = "text"
    /\ IsRaw(last.doc)
    /\ ~last.threw
    /\ ~last.read
    /\ texts[last.doc].filename \in lost
    /\ last.text = OwnContent(last.doc)

\* C27: readFile(path) reads the file from disk every time and leaves the
\* cache as it was, keys, values and order, whether it returns or throws
ReadFileBypassesCache ==
    [][ (CallStep /\ last'.op = "readFile")
        => /\ textCache' = textCache
           /\ last'.read
           /\ last'.threw = (last'.path \in lost \/ last'.path \notin ReadPaths
                             \/ RelTo(root, last'.path) \notin FilesRel)
           /\ (~last'.threw =>
                 last'.text = debreak(decodeLatin1(FileBytes[RelTo(root, last'.path)]))) ]_vars

\* readFile threw for an unreadable file whose text is in the cache, and the
\* cache still holds it
ReadFileBypassesCacheWitness ==
    /\ Ready
    /\ last.op = "readFile"
    /\ last.threw
    /\ last.path \in lost
    /\ MapHas(textCache, basename(last.path))
    /\ Len(textCache) = 2

\* C28: text() and sentences() on a document kept as a sentence module leave
\* the cache exactly as it was: same keys, same values, same order
PresegmentedLeavesCache ==
    [][ ( /\ CallStep
          /\ last'.op \in {"text", "sentences"}
          /\ IsPresegmented(last'.doc) )
        => textCache' = textCache ]_vars

\* the text of a sentence module was returned while the cache was full
PresegmentedLeavesCacheWitness ==
    /\ Ready
    /\ last.op = "text"
    /\ IsPresegmented(last.doc)
    /\ last.text # <<>>
    /\ config.maxCacheSize >= 1
    /\ Len(textCache) = config.maxCacheSize

\* C29: while POST_LIVE is not 'true' no invocation of the Lambda handler
\* calls Tumblr to create a post
NoPostingWhileDisabled ==
    (bot.run.kind = "lambda" /\ ~bot.postLive) => bot.run.postCalls = 0

\* the handler took the SQS route
IsSqsRun == bot.run.kind = "lambda" /\ bot.credentials
            /\ bot.run.event.source = "aws:sqs" /\ bot.run.event.records # <<>>

\* C30: for an SQS event the response has status 200 and one entry per
\* record in record order; the entry of a record depends on that record alone:
\* an error entry when the body cannot be parsed or the type is unknown, else
\* a result that reports whether the generation or the posting failed
SqsRecordsIndependent ==
    IsSqsRun =>
        LET records == bot.run.event.records
            results == bot.run.results
        IN  /\ bot.run.statusCode = 200
            /\ Len(results) = Len(records)
            /\ \A k \in 1..Len(records) :
                 /\ results[k].messageId = k
                 /\ results[k].error = (records[k].body \notin {"generate-poem", "post-poem"})
                 /\ results[k].failed =
                        ( \/ (records[k].body = "generate-poem" /\ records[k].gen # "poem")
                          \/ (records[k].body = "post-poem" /\ records[k].po # "posted") )

\* the first record could not be parsed, the second one was processed
SqsRecordsIndependentWitness ==
    /\ IsSqsRun
    /\ Len(bot.run.event.records) = 2
    /\ bot.run.event.records[1].body = "unparsable"
    /\ bot.run.event.records[2].body = "generate-poem"
    /\ bot.run.results[1].error
    /\ ~bot.run.results[2].error
    /\ ~bot.run.results[2].failed
    /\ bot.run.statusCode = 200

====
